---- MODULE Spec2Model ----
(***************************************************************************)
(* Model of the rule-resolution core of src/app.py (Praemien-Rechner):     *)
(* normalize_tiers / normalize_promos, find_rate_for_place,                *)
(* find_bonus_for_place, compute_scenarios, and the page script that ties  *)
(* them to the session state.                                              *)
(*                                                                         *)
(* A pandas DataFrame is a record [columns, data]: columns is the sequence *)
(* of column names, data the sequence of rows, each row a sequence of      *)
(* cells aligned with columns.  A cell is a record [k, v]:                 *)
(*   k = "int"    the integer v                                            *)
(*   k = "half"   the float v + 0.5 (a numeric value that is no integer)   *)
(*   k = "digits" the string holding the decimal digits of v               *)
(*   k = "text"   a string that is no number                               *)
(*   k = "nan"    a missing cell (None, NaN, pd.NA)                        *)
(* Rates, bonuses and points are modelled by integers (whole euros and     *)
(* whole points); floating-point rounding is not modelled.  Column names   *)
(* are ASCII; the alias spelled with the euro sign is not enumerated.      *)
(***************************************************************************)
EXTENDS Integers, Sequences, FiniteSets, TLC

VARIABLES tiers_edit, promos_edit, scenarios, tiers, promos, base_rate,
          tier_mode, promo_mode, place, warns, result_df, ret, edits

vars == <<tiers_edit, promos_edit, scenarios, tiers, promos, base_rate,
          tier_mode, promo_mode, place, warns, result_df, ret, edits>>

----------------------------------------------------------------------------
(* Bounds of the model *)

MaxRows == 2
MaxEditRank == 2
MaxScenRows == 2
MaxEdits == 2

----------------------------------------------------------------------------
(* Cells and frames *)

Num(n) == [k |-> "int", v |-> n]
Half(n) == [k |-> "half", v |-> n]
Digits(n) == [k |-> "digits", v |-> n]
Text == [k |-> "text", v |-> 0]
NaN == [k |-> "nan", v |-> 0]

Frame(cols, rows) == [columns |-> cols, data |-> rows]
EmptyFrame == Frame(<<>>, <<>>)

Return(fn, df, val) == [fn |-> fn, exc |-> "", df |-> df, val |-> val]
Raise(fn, e) == [fn |-> fn, exc |-> e, df |-> EmptyFrame, val |-> 0]
NoCall == Return("", EmptyFrame, 0)

HasCol(df, name) == \E i \in 1..Len(df.columns) : df.columns[i] = name
ColIndex(df, name) == CHOOSE i \in 1..Len(df.columns) : df.columns[i] = name
Cell(df, r, name) == df.data[r][ColIndex(df, name)]
Column(df, name) == [r \in 1..Len(df.data) |-> Cell(df, r, name)]

(* Evaluates x once and hands its value to F.  Operator arguments are passed *)
(* by name, so a pipeline of frames is written with Pipe to keep each stage   *)
(* from being recomputed at every use.                                        *)
Pipe(x, F(_)) == CHOOSE y \in {F(v) : v \in {x}} : TRUE

(* the members of the set of positions keep, in ascending order *)
Ascending(keep) ==
    [k \in 1..Cardinality(keep) |->
        CHOOSE i \in keep : Cardinality({j \in keep : j < i}) = k - 1]

(* df[mask]: the rows at the positions of the set keep, in order *)
Filter(df, keep) ==
    Pipe(Ascending(keep), LAMBDA idx :
        Frame(df.columns, [k \in 1..Len(idx) |-> df.data[idx[k]]]))

----------------------------------------------------------------------------
(* pandas primitives used by the helpers *)

(* c.strip().lower() on the column names the model enumerates *)
strip_lower(c) ==
    CASE c = "Von" -> "von"
      [] c = " Bis " -> "bis"
      [] c = "Euro pro Punkt" -> "euro pro punkt"
      [] c = "Bonus" -> "bonus"
      [] c = " Aufstiegsbonus" -> "aufstiegsbonus"
      [] c = "Platz" -> "platz"
      [] c = "Punkte" -> "punkte"
      [] c = "PLATZ " -> "platz"
      [] OTHER -> c

(* pd.to_numeric(x, errors="coerce") on one cell *)
to_numeric(c) ==
    CASE c.k = "digits" -> Num(c.v)
      [] c.k = "text" -> NaN
      [] OTHER -> c

(* Series.astype("Int64") refuses a float column holding a non-integer *)
CastFails(col) == \E r \in DOMAIN col : to_numeric(col[r]).k = "half"

(* df[name] = values: replaces the column in place, or appends a new one *)
Assign(df, name, values) ==
    IF HasCol(df, name)
    THEN Frame(df.columns,
               [r \in 1..Len(df.data) |->
                   [df.data[r] EXCEPT ![ColIndex(df, name)] = values[r]]])
    ELSE Frame(Append(df.columns, name),
               [r \in 1..Len(df.data) |-> Append(df.data[r], values[r])])

(* df.dropna(subset=names).reset_index(drop=True) *)
dropna(df, names) ==
    Filter(df, {r \in 1..Len(df.data) : \A n \in names : Cell(df, r, n).k # "nan"})

(* mutant: orders by the first key only *)
KeyLess_FirstKey(df, a, b, k1, k2) ==
    a[ColIndex(df, k1)].v < b[ColIndex(df, k1)].v

(* the row ordering of sort_values([k1, k2]) *)
KeyLess(df, a, b, k1, k2) ==
    LET i1 == ColIndex(df, k1)
        i2 == ColIndex(df, k2)
    IN  \/ a[i1].v < b[i1].v
        \/ a[i1].v = b[i1].v /\ a[i2].v < b[i2].v

(* the position row i takes in a stable sort: behind every smaller row and *)
(* behind the equal rows that precede it                                    *)
SortedPosition(df, i, k1, k2) ==
    1 + Cardinality({j \in 1..Len(df.data) :
                        \/ KeyLess(df, df.data[j], df.data[i], k1, k2)
                        \/ /\ ~KeyLess(df, df.data[i], df.data[j], k1, k2)
                           /\ j < i})

(* df.sort_values([k1, k2]).reset_index(drop=True): a stable lexicographic sort *)
sort_values(df, k1, k2) ==
    Frame(df.columns,
          [p \in 1..Len(df.data) |->
              df.data[CHOOSE i \in 1..Len(df.data) : SortedPosition(df, i, k1, k2) = p]])

----------------------------------------------------------------------------
(* Range Table Normalizer *)

tier_rename_map(c) ==
    CASE c = "von" -> "von_platz"
      [] c = "bis" -> "bis_platz"
      [] c = "euro pro punkt" -> "eur_pro_punkt"
      [] OTHER -> c

promo_rename_map(c) ==
    CASE c = "von" -> "von_platz"
      [] c = "bis" -> "bis_platz"
      [] c = "bonus" -> "bonus_eur"
      [] c = "aufstiegsbonus" -> "bonus_eur"
      [] OTHER -> c

(* compute_scenarios renames platz to platz and punkte to punkte *)
scen_rename_map(c) == c

(* the rename_map of the function fn *)
rename_map(fn, c) ==
    CASE fn = "normalize_tiers" -> tier_rename_map(c)
      [] fn = "normalize_promos" -> promo_rename_map(c)
      [] OTHER -> scen_rename_map(c)

(* df.columns = [c.strip().lower() ...]; df.rename(columns=rename_map) *)
RenameColumns(df, fn) ==
    Frame([i \in 1..Len(df.columns) |-> rename_map(fn, strip_lower(df.columns[i]))],
          df.data)

NumericColumn(df, name) ==
    [r \in 1..Len(df.data) |-> to_numeric(Cell(df, r, name))]

(* df.get(name, np.nan) fed to pd.to_numeric: a missing column becomes NaN *)
NumericOrNaN(df, name) ==
    IF HasCol(df, name) THEN NumericColumn(df, name)
    ELSE [r \in 1..Len(df.data) |-> NaN]

(* mutant: a strict comparison, which loses the single-rank rules *)
RangeFilter_Strict(df) ==
    Filter(df, {r \in 1..Len(df.data) :
                   Cell(df, r, "von_platz").v < Cell(df, r, "bis_platz").v})

(* df[df["von_platz"] <= df["bis_platz"]] *)
RangeFilter(df) ==
    Filter(df, {r \in 1..Len(df.data) :
                   Cell(df, r, "von_platz").v <= Cell(df, r, "bis_platz").v})

(* the body shared by normalize_tiers and normalize_promos after the rename: *)
(* df[col] raises KeyError on a missing rank column, astype("Int64")         *)
(* raises TypeError on a non-integer rank                                    *)
CleanRanges(fn, df, value_col) ==
    IF ~HasCol(df, "von_platz") THEN Raise(fn, "KeyError")
    ELSE IF CastFails(Column(df, "von_platz")) THEN Raise(fn, "TypeError")
    ELSE IF ~HasCol(df, "bis_platz") THEN Raise(fn, "KeyError")
    ELSE IF CastFails(Column(df, "bis_platz")) THEN Raise(fn, "TypeError")
    ELSE Pipe(Assign(df, "von_platz", NumericColumn(df, "von_platz")), LAMBDA d1 :
         Pipe(Assign(d1, "bis_platz", NumericColumn(d1, "bis_platz")), LAMBDA d2 :
         Pipe(Assign(d2, value_col, NumericOrNaN(d2, value_col)), LAMBDA d3 :
         Pipe(dropna(d3, {"von_platz", "bis_platz", value_col}), LAMBDA d4 :
         Pipe(RangeFilter(d4), LAMBDA d5 :
         Return(fn, sort_values(d5, "von_platz", "bis_platz"), 0))))))

normalize_tiers(df_tiers) ==
    Pipe(RenameColumns(df_tiers, "normalize_tiers"), LAMBDA df :
        CleanRanges("normalize_tiers", df, "eur_pro_punkt"))

normalize_promos(df_promos) ==
    Pipe(RenameColumns(df_promos, "normalize_promos"), LAMBDA df :
        CleanRanges("normalize_promos", df, "bonus_eur"))

----------------------------------------------------------------------------
(* Inputs of the normalizer: raw tables as an editor or an upload hands them over *)

Vals == {10, 20}
EditRanks == 1..MaxEditRank

(* every row of integer cells, inverted ranges included *)
IntRows == {<<Num(a), Num(b), Num(x)>> : a \in EditRanks, b \in EditRanks, x \in Vals}

(* rows with one malformed cell *)
BadRankCells == {Half(1), Text, NaN}
BadValueCells == {Text, NaN}
DirtyRows ==
    {<<c, Num(MaxEditRank), Num(10)>> : c \in BadRankCells \cup {Digits(1)}}
    \cup {<<Num(1), c, Num(10)>> : c \in BadRankCells \cup {Digits(MaxEditRank)}}
    \cup {<<Num(1), Num(MaxEditRank), c>> : c \in BadValueCells \cup {Digits(20)}}

RawRows == IntRows \cup DirtyRows
RawData == UNION {[1..n -> RawRows] : n \in 0..MaxRows}

TierHeaders ==
    { <<"von_platz", "bis_platz", "eur_pro_punkt">>,
      <<"Von", " Bis ", "Euro pro Punkt">>,
      <<"notes", "bis_platz", "eur_pro_punkt">>,
      <<"von_platz", "notes", "eur_pro_punkt">>,
      <<"von_platz", "bis_platz", "notes">> }

PromoHeader(h) ==
    [i \in 1..3 |->
        CASE h[i] = "eur_pro_punkt" -> "bonus_eur"
          [] h[i] = "Euro pro Punkt" -> " Aufstiegsbonus"
          [] OTHER -> h[i]]

InitNormalize ==
    /\ \E h \in TierHeaders, d \in RawData :
          /\ tiers_edit = Frame(h, d)
          /\ promos_edit = Frame(PromoHeader(h), d)
    /\ scenarios = EmptyFrame
    /\ tiers = EmptyFrame
    /\ promos = EmptyFrame
    /\ base_rate = 0
    /\ tier_mode = "first"
    /\ promo_mode = "first"
    /\ place = 1
    /\ warns = {}
    /\ result_df = EmptyFrame
    /\ ret = NoCall
    /\ edits = 0

CallNormalizeTiers ==
    /\ ret' = normalize_tiers(tiers_edit)
    /\ UNCHANGED <<tiers_edit, promos_edit, scenarios, tiers, promos, base_rate,
                   tier_mode, promo_mode, place, warns, result_df, edits>>

CallNormalizePromos ==
    /\ ret' = normalize_promos(promos_edit)
    /\ UNCHANGED <<tiers_edit, promos_edit, scenarios, tiers, promos, base_rate,
                   tier_mode, promo_mode, place, warns, result_df, edits>>

NextNormalize == CallNormalizeTiers \/ CallNormalizePromos

SpecNormalize == InitNormalize /\ [][NextNormalize]_vars

----------------------------------------------------------------------------
(* Properties of the normalizer, stated on the raw input and the returned table *)

IsNormalizeCall == ret.fn \in {"normalize_tiers", "normalize_promos"}
NormalizeInput == IF ret.fn = "normalize_tiers" THEN tiers_edit ELSE promos_edit
ValueColumn == IF ret.fn = "normalize_tiers" THEN "eur_pro_punkt" ELSE "bonus_eur"
ValueAliases ==
    IF ret.fn = "normalize_tiers" THEN {"eur_pro_punkt", "euro pro punkt"}
    ELSE {"bonus", "aufstiegsbonus", "bonus_eur"}

(* the positions of the raw columns that spell one of the aliases *)
Aliased(df, aliases) ==
    {i \in 1..Len(df.columns) : strip_lower(df.columns[i]) \in aliases}

IsIntegral(c) == c.k \in {"int", "digits"}
IsNumber(c) == c.k \in {"int", "digits", "half"}

(* input row r is a well-formed range rule: all three fields present and *)
(* numeric, the ranks integers, from_rank <= to_rank                      *)
WellFormedRule(df, r) ==
    /\ Aliased(df, {"von", "von_platz"}) # {}
    /\ Aliased(df, {"bis", "bis_platz"}) # {}
    /\ Aliased(df, ValueAliases) # {}
    /\ LET f == df.data[r][CHOOSE i \in Aliased(df, {"von", "von_platz"}) : TRUE]
           t == df.data[r][CHOOSE i \in Aliased(df, {"bis", "bis_platz"}) : TRUE]
           x == df.data[r][CHOOSE i \in Aliased(df, ValueAliases) : TRUE]
       IN  IsIntegral(f) /\ IsIntegral(t) /\ IsNumber(x) /\ f.v <= t.v

RuleOf(df, r) ==
    << df.data[r][CHOOSE i \in Aliased(df, {"von", "von_platz"}) : TRUE].v,
       df.data[r][CHOOSE i \in Aliased(df, {"bis", "bis_platz"}) : TRUE].v,
       df.data[r][CHOOSE i \in Aliased(df, ValueAliases) : TRUE].v >>

RECURSIVE WellFormedRules(_, _)
(* the well-formed rules of the input, in input order *)
WellFormedRules(df, r) ==
    IF r > Len(df.data) THEN <<>>
    ELSE (IF WellFormedRule(df, r) THEN <<RuleOf(df, r)>> ELSE <<>>)
         \o WellFormedRules(df, r + 1)

(* the rules of a normalized table *)
OutRules(df, value_col) ==
    [r \in 1..Len(df.data) |->
        << Cell(df, r, "von_platz").v, Cell(df, r, "bis_platz").v,
           Cell(df, r, value_col).v >>]

Count(seq, x) == Cardinality({i \in 1..Len(seq) : seq[i] = x})
SameBag(a, b) ==
    /\ Len(a) = Len(b)
    /\ \A i \in 1..Len(a) : Count(a, a[i]) = Count(b, a[i])

WithKey(seq, f, t) == SelectSeq(seq, LAMBDA x : x[1] = f /\ x[2] = t)

(* C6: normalize_tiers and normalize_promos never raise; a malformed table *)
(* yields the table of exactly its well-formed rows, possibly empty.       *)
C6_NeverRaises ==
    IsNormalizeCall =>
        /\ ret.exc = ""
        /\ SameBag(OutRules(ret.df, ValueColumn), WellFormedRules(NormalizeInput, 1))

(* C8: the returned table is sorted ascending by (from_rank, to_rank), and *)
(* rows with equal (from_rank, to_rank) keep their relative input order.   *)
C8_Sorted ==
    (IsNormalizeCall /\ ret.exc = "") =>
        LET out == OutRules(ret.df, ValueColumn)
            inp == WellFormedRules(NormalizeInput, 1)
        IN  /\ \A i \in 1..Len(out) : \A j \in 1..Len(out) :
                  i < j => /\ out[i][1] <= out[j][1]
                           /\ out[i][1] = out[j][1] => out[i][2] <= out[j][2]
            /\ \A i \in 1..Len(out) :
                  WithKey(out, out[i][1], out[i][2]) = WithKey(inp, out[i][1], out[i][2])

(* C8 witness: a table returned for an input whose well-formed rows were out of order *)
C8_Witness ==
    /\ IsNormalizeCall /\ ret.exc = ""
    /\ Len(ret.df.data) >= 2
    /\ LET inp == WellFormedRules(NormalizeInput, 1)
       IN  \E i \in 1..Len(inp) : \E j \in 1..Len(inp) :
              i < j /\ (inp[j][1] < inp[i][1]
                        \/ (inp[j][1] = inp[i][1] /\ inp[j][2] < inp[i][2]))

(* C9: no row with from_rank > to_rank or a non-numeric field is in the     *)
(* returned table, every returned row has from_rank <= to_rank, and every   *)
(* valid row is kept, overlapping ones included.                            *)
C9_DropInvariant ==
    (IsNormalizeCall /\ ret.exc = "") =>
        LET out == OutRules(ret.df, ValueColumn)
        IN  /\ \A i \in 1..Len(out) : out[i][1] <= out[i][2]
            /\ \A i \in 1..Len(ret.df.data) :
                  /\ Cell(ret.df, i, "von_platz").k = "int"
                  /\ Cell(ret.df, i, "bis_platz").k = "int"
                  /\ Cell(ret.df, i, ValueColumn).k = "int"
            /\ SameBag(out, WellFormedRules(NormalizeInput, 1))

(* C9 witness: a table returned for an input that holds an inverted row *)
(* next to a valid one                                                  *)
C9_Witness ==
    /\ IsNormalizeCall /\ ret.exc = ""
    /\ LET df == NormalizeInput
       IN  \E r \in 1..Len(df.data) :
              /\ \A i \in 1..3 : df.data[r][i].k = "int"
              /\ df.data[r][1].v > df.data[r][2].v
    /\ Len(ret.df.data) >= 1

----------------------------------------------------------------------------
(* Range Resolver *)

MaxRank == 3
MaxRules == 3
DEFAULT_BASE_RATE == 25

(* tiers[(tiers["von_platz"] <= place) & (tiers["bis_platz"] >= place)] *)
Matches(df, p) ==
    Filter(df, {r \in 1..Len(df.data) :
                   Cell(df, r, "von_platz").v <= p /\ Cell(df, r, "bis_platz").v >= p})

(* mutant: the widest match wins, as the policy's name suggests *)
NarrowestRate_Widest(matches) ==
    Pipe(Assign(matches, "width",
                [r \in 1..Len(matches.data) |->
                    Num(Cell(matches, r, "von_platz").v - Cell(matches, r, "bis_platz").v)]),
         LAMBDA m : Cell(sort_values(m, "width", "von_platz"), 1, "eur_pro_punkt").v)

(* matches.assign(width=bis - von).sort_values(["width", "von_platz"]).iloc[0] *)
NarrowestRate(matches) ==
    Pipe(Assign(matches, "width",
                [r \in 1..Len(matches.data) |->
                    Num(Cell(matches, r, "bis_platz").v - Cell(matches, r, "von_platz").v)]),
         LAMBDA m : Cell(sort_values(m, "width", "von_platz"), 1, "eur_pro_punkt").v)

(* mutant: the last match instead of the first *)
FirstRate_Last(matches) == Cell(matches, Len(matches.data), "eur_pro_punkt").v

(* matches.iloc[0]["eur_pro_punkt"] *)
FirstRate(matches) == Cell(matches, 1, "eur_pro_punkt").v

(* mutant: an uncovered rank pays nothing *)
find_rate_for_place_NoFallback(p, df, rate, match_mode) ==
    Pipe(Matches(df, p), LAMBDA matches :
        IF matches.data = <<>> THEN Return("find_rate_for_place", EmptyFrame, 0)
        ELSE IF match_mode = "max_range"
             THEN Return("find_rate_for_place", EmptyFrame, NarrowestRate(matches))
             ELSE Return("find_rate_for_place", EmptyFrame, FirstRate(matches)))

find_rate_for_place(p, df, rate, match_mode) ==
    Pipe(Matches(df, p), LAMBDA matches :
        IF matches.data = <<>> THEN Return("find_rate_for_place", EmptyFrame, rate)
        ELSE IF match_mode = "max_range"
             THEN Return("find_rate_for_place", EmptyFrame, NarrowestRate(matches))
             ELSE Return("find_rate_for_place", EmptyFrame, FirstRate(matches)))

RECURSIVE SumUpTo(_, _)
SumUpTo(vals, n) == IF n = 0 THEN 0 ELSE vals[n] + SumUpTo(vals, n - 1)
SumSeq(vals) == SumUpTo(vals, Len(vals))

MaxSeq(vals) == CHOOSE x \in {vals[i] : i \in 1..Len(vals)} :
                    \A i \in 1..Len(vals) : vals[i] <= x

(* mutant: "max" and "sum" exchanged *)
AggregateBonus_Swapped(vals, mode) ==
    IF mode = "first" THEN vals[1]
    ELSE IF mode = "max" THEN SumSeq(vals)
    ELSE MaxSeq(vals)

(* the three return statements over vals *)
AggregateBonus(vals, mode) ==
    IF mode = "first" THEN vals[1]
    ELSE IF mode = "max" THEN MaxSeq(vals)
    ELSE SumSeq(vals)

find_bonus_for_place(p, df, mode) ==
    Pipe(Matches(df, p), LAMBDA matches :
        IF matches.data = <<>> THEN Return("find_bonus_for_place", EmptyFrame, 0)
        ELSE Pipe([r \in 1..Len(matches.data) |-> Cell(matches, r, "bonus_eur").v],
                  LAMBDA vals :
                      Return("find_bonus_for_place", EmptyFrame, AggregateBonus(vals, mode))))

----------------------------------------------------------------------------
(* Inputs of the resolver: normalized tables, as normalize_tiers and *)
(* normalize_promos return them                                       *)

TierModes == {"first", "max_range"}
PromoModes == {"first", "max", "sum"}
BaseRates == {0, DEFAULT_BASE_RATE}
(* ranks asked for: below, inside and above the ranks the tables cover *)
Places == 0..(MaxRank + 1)

RuleRows == {<<Num(a), Num(b), Num(x)>> : a \in 1..MaxRank, b \in 1..MaxRank, x \in Vals}

(* the tables the normalizers can return: rules with from <= to, in *)
(* ascending order of (from, to)                                     *)
RuleData ==
    {d \in UNION {[1..n -> {r \in RuleRows : r[1].v <= r[2].v}] : n \in 0..MaxRules} :
        \A i \in 1..(Len(d) - 1) :
            \/ d[i][1].v < d[i + 1][1].v
            \/ d[i][1].v = d[i + 1][1].v /\ d[i][2].v <= d[i + 1][2].v}

TierColumns == <<"von_platz", "bis_platz", "eur_pro_punkt">>
PromoColumns == <<"von_platz", "bis_platz", "bonus_eur">>

InitResolve ==
    /\ \E d \in RuleData :
          /\ tiers = Frame(TierColumns, d)
          /\ promos = Frame(PromoColumns, d)
    /\ base_rate = DEFAULT_BASE_RATE
    /\ tiers_edit = EmptyFrame
    /\ promos_edit = EmptyFrame
    /\ scenarios = EmptyFrame
    /\ tier_mode = "first"
    /\ promo_mode = "first"
    /\ place = 1
    /\ warns = {}
    /\ result_df = EmptyFrame
    /\ ret = NoCall
    /\ edits = 0

(* one call per behaviour: the arguments are drawn when the call is made *)
CallFindRate ==
    \E p \in Places, m \in TierModes, b \in BaseRates :
        /\ ret = NoCall
        /\ place' = p
        /\ tier_mode' = m
        /\ base_rate' = b
        /\ ret' = find_rate_for_place(p, tiers, b, m)
        /\ UNCHANGED <<tiers_edit, promos_edit, scenarios, tiers, promos,
                       promo_mode, warns, result_df, edits>>

CallFindBonus ==
    \E p \in Places, m \in PromoModes :
        /\ ret = NoCall
        /\ place' = p
        /\ promo_mode' = m
        /\ ret' = find_bonus_for_place(p, promos, m)
        /\ UNCHANGED <<tiers_edit, promos_edit, scenarios, tiers, promos, base_rate,
                       tier_mode, warns, result_df, edits>>

NextResolve == CallFindRate \/ CallFindBonus

SpecResolve == InitResolve /\ [][NextResolve]_vars

----------------------------------------------------------------------------
(* Default tables of the session *)

Rule(f, t, x) == <<Num(f), Num(t), Num(x)>>

DEFAULT_TIERS == Frame(TierColumns, <<Rule(1, 2, 75), Rule(3, 5, 50), Rule(6, 10, 35)>>)
DEFAULT_PROMOS == Frame(PromoColumns, <<Rule(1, 1, 2500), Rule(2, 2, 2000)>>)

----------------------------------------------------------------------------
(* Properties of the resolver, stated on the table, the rank and the result *)

(* the positions of the rules whose interval contains rank p *)
MatchSet(df, p) ==
    {r \in 1..Len(df.data) : df.data[r][1].v <= p /\ p <= df.data[r][2].v}

Von(df, r) == df.data[r][1].v
Bis(df, r) == df.data[r][2].v
Value(df, r) == df.data[r][3].v
Width(df, r) == Bis(df, r) - Von(df, r)
MinOf(S) == CHOOSE x \in S : \A y \in S : x <= y

RECURSIVE SumOver(_, _)
SumOver(df, S) ==
    IF S = {} THEN 0
    ELSE LET r == CHOOSE x \in S : TRUE IN Value(df, r) + SumOver(df, S \ {r})

IsRateCall == ret.fn = "find_rate_for_place"
IsBonusCall == ret.fn = "find_bonus_for_place"

(* C2: when no rule contains the rank, the tier resolver returns exactly *)
(* base_rate and the bonus resolver exactly 0, under every policy, and   *)
(* neither raises; the empty table included.                             *)
C2_Fallback ==
    /\ (IsRateCall /\ MatchSet(tiers, place) = {}) =>
           (ret.exc = "" /\ ret.val = base_rate)
    /\ (IsBonusCall /\ MatchSet(promos, place) = {}) =>
           (ret.exc = "" /\ ret.val = 0)
    /\ (IsRateCall \/ IsBonusCall) => ret.exc = ""

(* C2 witness: a rate lookup in a non-empty table that does not cover the rank *)
C2_Witness ==
    /\ IsRateCall
    /\ tiers.data # <<>>
    /\ MatchSet(tiers, place) = {}
    /\ base_rate # 0
    /\ ret.val = base_rate

OverlapExample == Frame(TierColumns, <<Rule(1, 5, 10), Rule(1, 3, 100)>>)
OverlapExampleRate ==
    find_rate_for_place(2, normalize_tiers(OverlapExample).df,
                        DEFAULT_BASE_RATE, "max_range").val

(* C3: under max_range the result is the value of a matching rule of  *)
(* minimum width that has, among those, the smallest from_rank; tiers *)
(* [{1,5,10},{1,3,100}] resolve rank 2 to 100.                        *)
C3_MaxRange ==
    /\ (IsRateCall /\ tier_mode = "max_range" /\ MatchSet(tiers, place) # {}) =>
           \E r \in MatchSet(tiers, place) :
               /\ ret.val = Value(tiers, r)
               /\ \A q \in MatchSet(tiers, place) :
                     /\ Width(tiers, r) <= Width(tiers, q)
                     /\ Width(tiers, r) = Width(tiers, q) => Von(tiers, r) <= Von(tiers, q)
    /\ OverlapExampleRate = 100

(* C3 witness: max_range chose a rule other than the first match in table order *)
C3_Witness ==
    /\ IsRateCall /\ tier_mode = "max_range"
    /\ Cardinality(MatchSet(tiers, place)) >= 2
    /\ ret.val # Value(tiers, MinOf(MatchSet(tiers, place)))

DefaultTierRates ==
    << find_rate_for_place(1, DEFAULT_TIERS, DEFAULT_BASE_RATE, "first").val,
       find_rate_for_place(4, DEFAULT_TIERS, DEFAULT_BASE_RATE, "first").val,
       find_rate_for_place(12, DEFAULT_TIERS, DEFAULT_BASE_RATE, "first").val >>

(* C4: under first the result is the value of the first matching rule in *)
(* table order, which has the smallest from_rank among the matches and,  *)
(* among those, the smallest to_rank; the default tiers resolve rank 1   *)
(* to 75, rank 4 to 50 and rank 12 to the base rate 25.                  *)
C4_First ==
    /\ (IsRateCall /\ tier_mode = "first" /\ MatchSet(tiers, place) # {}) =>
           LET r == MinOf(MatchSet(tiers, place))
           IN  /\ ret.val = Value(tiers, r)
               /\ \A q \in MatchSet(tiers, place) :
                     /\ Von(tiers, r) <= Von(tiers, q)
                     /\ Von(tiers, r) = Von(tiers, q) => Bis(tiers, r) <= Bis(tiers, q)
    /\ DefaultTierRates = <<75, 50, 25>>

(* C4 witness: first chose among several matches of different value *)
C4_Witness ==
    /\ IsRateCall /\ tier_mode = "first"
    /\ \E q \in MatchSet(tiers, place) : Value(tiers, q) # ret.val

BonusExample ==
    Frame(PromoColumns, <<Rule(1, 1, 2500), Rule(2, 2, 2000), Rule(1, 2, 500)>>)

BonusExampleValues ==
    << find_bonus_for_place(1, normalize_promos(BonusExample).df, "max").val,
       find_bonus_for_place(1, normalize_promos(BonusExample).df, "sum").val >>

(* C5: with at least one matching bonus rule the result is the value of  *)
(* the first match under first, the maximum value of the matches under   *)
(* max and the sum of their values under sum; bonuses                    *)
(* [{1,1,2500},{2,2,2000},{1,2,500}] resolve rank 1 to 2500 under max    *)
(* and to 3000 under sum.                                                *)
C5_BonusPolicies ==
    /\ (IsBonusCall /\ MatchSet(promos, place) # {}) =>
           LET M == MatchSet(promos, place)
           IN  /\ promo_mode = "first" => ret.val = Value(promos, MinOf(M))
               /\ promo_mode = "max" =>
                     /\ \E r \in M : ret.val = Value(promos, r)
                     /\ \A r \in M : Value(promos, r) <= ret.val
               /\ promo_mode = "sum" => ret.val = SumOver(promos, M)
    /\ BonusExampleValues = <<2500, 3000>>

(* C5 witness: a sum over several matching rules *)
C5_Witness ==
    /\ IsBonusCall /\ promo_mode = "sum"
    /\ Cardinality(MatchSet(promos, place)) >= 2
    /\ ret.val > Value(promos, MinOf(MatchSet(promos, place)))

----------------------------------------------------------------------------
(* Scenario Evaluator.  The three result columns are spelled in ASCII. *)

RateColumn == "EUR/Punkt"
BonusColumn == "Aufstiegsbonus (EUR)"
TotalColumn == "Gesamt-Praemie (EUR)"

(* mutant: the two policy arguments exchanged *)
EvaluateRow_ModesSwapped(p, pts, tiers_df, rate, promos_df, mode, match_mode) ==
    Pipe(find_rate_for_place(p, tiers_df, rate, mode).val, LAMBDA r :
    Pipe(find_bonus_for_place(p, promos_df, match_mode).val, LAMBDA b :
        <<Num(r), Num(b), Num(pts * r + b)>>))

(* the loop body: rate, bonus and total of one cleaned row *)
EvaluateRow(p, pts, tiers_df, rate, promos_df, mode, match_mode) ==
    Pipe(find_rate_for_place(p, tiers_df, rate, match_mode).val, LAMBDA r :
    Pipe(find_bonus_for_place(p, promos_df, mode).val, LAMBDA b :
        <<Num(r), Num(b), Num(pts * r + b)>>))

(* df.get("platz", np.nan) is the float NaN when the column is missing, and  *)
(* a float has no astype: AttributeError; astype("Int64") raises TypeError   *)
(* on a non-integer rank                                                      *)
compute_scenarios(df_scen, tiers_df, rate, promos_df, mode, match_mode) ==
    Pipe(RenameColumns(df_scen, "compute_scenarios"), LAMBDA df :
    IF ~HasCol(df, "platz") THEN Raise("compute_scenarios", "AttributeError")
    ELSE IF CastFails(Column(df, "platz")) THEN Raise("compute_scenarios", "TypeError")
    ELSE Pipe(Assign(df, "platz", NumericColumn(df, "platz")), LAMBDA d1 :
         Pipe(Assign(d1, "punkte", NumericOrNaN(d1, "punkte")), LAMBDA d2 :
         Pipe(dropna(d2, {"platz", "punkte"}), LAMBDA d3 :
         Pipe([r \in 1..Len(d3.data) |->
                  EvaluateRow(Cell(d3, r, "platz").v, Cell(d3, r, "punkte").v,
                              tiers_df, rate, promos_df, mode, match_mode)],
              LAMBDA res :
         Pipe(Assign(d3, RateColumn, [r \in 1..Len(d3.data) |-> res[r][1]]), LAMBDA o1 :
         Pipe(Assign(o1, BonusColumn, [r \in 1..Len(d3.data) |-> res[r][2]]), LAMBDA o2 :
         Return("compute_scenarios",
                Assign(o2, TotalColumn, [r \in 1..Len(d3.data) |-> res[r][3]]), 0))))))))

----------------------------------------------------------------------------
(* Inputs of the evaluator *)

EvalPlaces == {1, 2, 11}
EvalPoints == {31, 73}

ScenRows ==
    {<<Num(p), Num(x)>> : p \in EvalPlaces, x \in EvalPoints}
    \cup {<<c, Num(31)>> : c \in {Half(1), Digits(2), Text, NaN}}
    \cup {<<Num(1), c>> : c \in {Digits(73), Text, NaN}}

ScenData == UNION {[1..n -> ScenRows] : n \in 0..MaxScenRows}

ScenHeaders ==
    { <<"Platz", "Punkte">>, <<"PLATZ ", "punkte">>,
      <<"notes", "Punkte">>, <<"Platz", "notes">> }

(* the rule tables of a call: none, the defaults, and two overlapping ones *)
EvalTables ==
    { <<Frame(TierColumns, <<>>), Frame(PromoColumns, <<>>)>>,
      <<DEFAULT_TIERS, DEFAULT_PROMOS>>,
      <<normalize_tiers(OverlapExample).df, normalize_promos(BonusExample).df>> }

InitEvaluate ==
    /\ \E h \in ScenHeaders, d \in ScenData : scenarios = Frame(h, d)
    /\ \E t \in EvalTables : tiers = t[1] /\ promos = t[2]
    /\ base_rate = DEFAULT_BASE_RATE
    /\ tiers_edit = EmptyFrame
    /\ promos_edit = EmptyFrame
    /\ tier_mode = "first"
    /\ promo_mode = "first"
    /\ place = 1
    /\ warns = {}
    /\ result_df = EmptyFrame
    /\ ret = NoCall
    /\ edits = 0

(* one call per behaviour: the policies are drawn when the call is made *)
CallComputeScenarios ==
    \E tm \in TierModes, pm \in PromoModes :
        /\ ret = NoCall
        /\ tier_mode' = tm
        /\ promo_mode' = pm
        /\ ret' = compute_scenarios(scenarios, tiers, base_rate, promos, pm, tm)
        /\ UNCHANGED <<tiers_edit, promos_edit, scenarios, tiers, promos, base_rate,
                       place, warns, result_df, edits>>

NextEvaluate == CallComputeScenarios

SpecEvaluate == InitEvaluate /\ [][NextEvaluate]_vars

----------------------------------------------------------------------------
(* Properties of the evaluator *)

IsEvalCall == ret.fn = "compute_scenarios"

(* the positions of the scenario columns in the raw input *)
PlatzCols == Aliased(scenarios, {"platz"})
PunkteCols == Aliased(scenarios, {"punkte"})

(* input row r has a rank and points that coerce to numbers *)
CoercibleScenario(r) ==
    /\ PlatzCols # {} /\ PunkteCols # {}
    /\ IsNumber(scenarios.data[r][CHOOSE i \in PlatzCols : TRUE])
    /\ IsNumber(scenarios.data[r][CHOOSE i \in PunkteCols : TRUE])

RECURSIVE CoercibleScenarios(_)
(* the coerced (rank, points) cells of those rows, in input order *)
CoercibleScenarios(r) ==
    IF r > Len(scenarios.data) THEN <<>>
    ELSE (IF CoercibleScenario(r)
          THEN << << to_numeric(scenarios.data[r][CHOOSE i \in PlatzCols : TRUE]),
                     to_numeric(scenarios.data[r][CHOOSE i \in PunkteCols : TRUE]) >> >>
          ELSE <<>>)
         \o CoercibleScenarios(r + 1)

OutScenarios(df) ==
    [r \in 1..Len(df.data) |-> <<Cell(df, r, "platz"), Cell(df, r, "punkte")>>]

(* the rows of the spec's end-to-end example: default tables, policy first *)
IsEndToEndCall ==
    /\ IsEvalCall /\ ret.exc = ""
    /\ tiers = DEFAULT_TIERS /\ promos = DEFAULT_PROMOS
    /\ base_rate = DEFAULT_BASE_RATE
    /\ tier_mode = "first" /\ promo_mode = "first"

TotalsOf(p, pts) ==
    {Cell(ret.df, r, TotalColumn).v :
        r \in {i \in 1..Len(ret.df.data) :
                  Cell(ret.df, i, "platz").v = p /\ Cell(ret.df, i, "punkte").v = pts}}

(* every output row carries the resolvers' results for its rank, and *)
(* total = points * rate + bonus                                      *)
RowPayout ==
    (IsEvalCall /\ ret.exc = "") =>
        \A r \in 1..Len(ret.df.data) :
            LET p == Cell(ret.df, r, "platz").v
                pts == Cell(ret.df, r, "punkte").v
                rate == Cell(ret.df, r, RateColumn).v
                bonus == Cell(ret.df, r, BonusColumn).v
            IN  /\ rate = find_rate_for_place(p, tiers, base_rate, tier_mode).val
                /\ bonus = find_bonus_for_place(p, promos, promo_mode).val
                /\ Cell(ret.df, r, TotalColumn).v = pts * rate + bonus

(* C1 as stated: every row of the output carries the tier resolver's rate *)
(* and the bonus resolver's bonus for its rank under the given tables and *)
(* policies, and total = points * rate + bonus; with the default tables   *)
(* (rank 1, 73 points) totals 8175 and (rank 11, 31 points) totals 775.   *)
C1_AsStated ==
    /\ RowPayout
    /\ IsEndToEndCall => /\ TotalsOf(1, 73) \subseteq {8175}
                         /\ TotalsOf(11, 31) \subseteq {775}

(* C1 amended: as above, but (rank 1, 73 points) totals 73 * 75 + 2500 = 7975. *)
C1_RowPayout ==
    /\ RowPayout
    /\ IsEndToEndCall => /\ TotalsOf(1, 73) \subseteq {7975}
                         /\ TotalsOf(11, 31) \subseteq {775}

(* C1 witness: the end-to-end example has been evaluated *)
C1_Witness ==
    /\ IsEndToEndCall
    /\ TotalsOf(1, 73) # {}
    /\ TotalsOf(11, 31) # {}

(* C7: the output holds exactly the input rows whose rank and points both *)
(* coerce to numbers, in input order.                                     *)
C7_RowsPreserved ==
    IsEvalCall =>
        /\ ret.exc = ""
        /\ OutScenarios(ret.df) = CoercibleScenarios(1)

----------------------------------------------------------------------------
(* The page script.  Every interaction of the user reruns the script from *)
(* top to bottom; an action below is the interaction followed by that     *)
(* run.  ret records how the run ended.                                   *)

DEFAULT_SCENARIOS ==
    Frame(<<"Platz", "Punkte">>,
          << <<Num(1), Num(73)>>, <<Num(2), Num(69)>>, <<Num(3), Num(67)>>,
             <<Num(4), Num(59)>>, <<Num(5), Num(51)>>, <<Num(6), Num(46)>>,
             <<Num(7), Num(35)>>, <<Num(8), Num(35)>>, <<Num(9), Num(32)>>,
             <<Num(10), Num(32)>>, <<Num(11), Num(31)>>, <<Num(12), Num(26)>>,
             <<Num(13), Num(23)>>, <<Num(14), Num(19)>>, <<Num(15), Num(11)>>,
             <<Num(16), Num(11)>> >>)

TierWarning == "In Stufen ist mindestens eine Zeile mit Von > Bis."
PromoWarning == "In Aufstiegsbonus ist mindestens eine Zeile mit Von > Bis."

(* not df.empty and (df["von_platz"] > df["bis_platz"]).any() *)
HasInvertedRow(df) ==
    /\ df.data # <<>>
    /\ \E r \in 1..Len(df.data) :
          Cell(df, r, "von_platz").v > Cell(df, r, "bis_platz").v

(* the warnings block *)
Warnings(tiers_df, promos_df) ==
    (IF HasInvertedRow(tiers_df) THEN {TierWarning} ELSE {})
    \cup (IF HasInvertedRow(promos_df) THEN {PromoWarning} ELSE {})

(* One run of the script below the sidebar: te, pe and se are what the three *)
(* editors return, s the session state at that point.  An exception ends the *)
(* run where it is raised: the statements after it are not executed.         *)
RunPage(s, te, pe, se, tm, pm) ==
    Pipe([s EXCEPT !.warns = {}, !.result_df = EmptyFrame], LAMBDA shown :
    Pipe(normalize_tiers(te), LAMBDA nt :
    IF nt.exc # "" THEN [shown EXCEPT !.ret = Raise("page", nt.exc)]
    ELSE Pipe(normalize_promos(pe), LAMBDA np :
    IF np.exc # "" THEN [shown EXCEPT !.tiers = nt.df, !.ret = Raise("page", np.exc)]
    ELSE Pipe([shown EXCEPT !.tiers = nt.df, !.promos = np.df, !.scenarios = se,
                            !.warns = Warnings(nt.df, np.df)], LAMBDA s3 :
         Pipe(compute_scenarios(se, nt.df, s.base_rate, np.df, pm, tm), LAMBDA res :
         IF res.exc # "" THEN [s3 EXCEPT !.ret = Raise("page", res.exc)]
         ELSE [s3 EXCEPT !.result_df = res.df,
                         !.ret = Return("page", EmptyFrame, 0)])))))

Session ==
    [tiers |-> tiers, promos |-> promos, scenarios |-> scenarios,
     base_rate |-> base_rate, warns |-> warns, result_df |-> result_df, ret |-> ret]

DefaultSession ==
    [tiers |-> DEFAULT_TIERS, promos |-> DEFAULT_PROMOS,
     scenarios |-> DEFAULT_SCENARIOS, base_rate |-> DEFAULT_BASE_RATE,
     warns |-> {}, result_df |-> EmptyFrame, ret |-> NoCall]

(* the variables after a run with the given editor contents and selections *)
Rerun(s, te, pe, se, tm, pm) ==
    \E n \in {RunPage(s, te, pe, se, tm, pm)} :
        /\ tiers_edit' = te
        /\ promos_edit' = pe
        /\ tier_mode' = tm
        /\ promo_mode' = pm
        /\ tiers' = n.tiers
        /\ promos' = n.promos
        /\ scenarios' = n.scenarios
        /\ base_rate' = n.base_rate
        /\ warns' = n.warns
        /\ result_df' = n.result_df
        /\ ret' = n.ret
        /\ place' = place
        /\ edits' = edits + 1

(* the first run of a session: the defaults, no interaction yet *)
InitPage ==
    \E n \in {RunPage(DefaultSession, DEFAULT_TIERS, DEFAULT_PROMOS,
                       DEFAULT_SCENARIOS, "first", "first")} :
        /\ tiers_edit = DEFAULT_TIERS
        /\ promos_edit = DEFAULT_PROMOS
        /\ tier_mode = "first"
        /\ promo_mode = "first"
        /\ tiers = n.tiers
        /\ promos = n.promos
        /\ scenarios = n.scenarios
        /\ base_rate = n.base_rate
        /\ warns = n.warns
        /\ result_df = n.result_df
        /\ ret = n.ret
        /\ place = 1
        /\ edits = 0

(* rows a user adds in the tier editor: an overlapping rule, an inverted *)
(* range, a row with an empty cell                                        *)
TierEdits == {Rule(1, 3, 100), Rule(5, 3, 40), <<Num(7), Num(8), NaN>>}
PromoEdits == {Rule(1, 2, 500), Rule(3, 2, 300), <<Num(3), NaN, Num(100)>>}

(* tables a user uploads as CSV: clean, a non-integer rank, no Platz column; *)
(* the upload replaces the session's scenarios before the editor shows them  *)
Uploads ==
    { Frame(<<"Platz", "Punkte">>, << <<Num(11), Num(31)>>, <<Num(1), Num(73)>> >>),
      Frame(<<"Platz", "Punkte">>, << <<Half(1), Num(10)>>, <<Num(2), Text>> >>),
      Frame(<<"notes", "Punkte">>, << <<Num(1), Num(10)>> >>) }

RemoveAt(seq, i) == SubSeq(seq, 1, i - 1) \o SubSeq(seq, i + 1, Len(seq))

(* st.data_editor(st.session_state.tiers, num_rows="dynamic"): the session's *)
(* table with one row added or deleted                                        *)
Edited(df, rows) ==
    {Frame(df.columns, Append(df.data, r)) : r \in rows}
    \cup {Frame(df.columns, RemoveAt(df.data, i)) : i \in 1..Len(df.data)}

EditTiers ==
    /\ edits < MaxEdits
    /\ \E te \in Edited(tiers, TierEdits) :
          Rerun(Session, te, promos, scenarios, tier_mode, promo_mode)

EditPromos ==
    /\ edits < MaxEdits
    /\ \E pe \in Edited(promos, PromoEdits) :
          Rerun(Session, tiers, pe, scenarios, tier_mode, promo_mode)

EditScenarios ==
    /\ edits < MaxEdits
    /\ scenarios.data # <<>>
    /\ Rerun(Session, tiers, promos,
             Frame(scenarios.columns, RemoveAt(scenarios.data, Len(scenarios.data))),
             tier_mode, promo_mode)

UploadCsv ==
    /\ edits < MaxEdits
    /\ \E up \in Uploads :
          Rerun([Session EXCEPT !.scenarios = up], tiers, promos, up,
                tier_mode, promo_mode)

SetBaseRate ==
    /\ edits < MaxEdits
    /\ \E b \in BaseRates \ {base_rate} :
          Rerun([Session EXCEPT !.base_rate = b], tiers, promos, scenarios,
                tier_mode, promo_mode)

SelectTierMode ==
    /\ edits < MaxEdits
    /\ \E tm \in TierModes \ {tier_mode} :
          Rerun(Session, tiers, promos, scenarios, tm, promo_mode)

SelectPromoMode ==
    /\ edits < MaxEdits
    /\ \E pm \in PromoModes \ {promo_mode} :
          Rerun(Session, tiers, promos, scenarios, tier_mode, pm)

LoadDefaults ==
    /\ edits < MaxEdits
    /\ Rerun([DefaultSession EXCEPT !.ret = ret], DEFAULT_TIERS, DEFAULT_PROMOS,
             DEFAULT_SCENARIOS, tier_mode, promo_mode)

(* the button that only forces a rerun *)
ForceUpdate ==
    /\ edits < MaxEdits
    /\ Rerun(Session, tiers, promos, scenarios, tier_mode, promo_mode)

NextPage ==
    \/ ForceUpdate
    \/ EditTiers
    \/ EditPromos
    \/ EditScenarios
    \/ UploadCsv
    \/ SetBaseRate
    \/ SelectTierMode
    \/ SelectPromoMode
    \/ LoadDefaults

SpecPage == InitPage /\ [][NextPage]_vars

----------------------------------------------------------------------------
(* Properties of the page *)

IsPageRun == ret.fn = "page" /\ ret.exc = ""

(* the editor's table holds a row of two integer ranks with from > to *)
EditorHoldsInverted(df) ==
    \E r \in 1..Len(df.data) :
        /\ IsIntegral(df.data[r][1]) /\ IsIntegral(df.data[r][2])
        /\ df.data[r][1].v > df.data[r][2].v

(* C10: a run in which the tier (bonus) editor holds a row with           *)
(* from_rank > to_rank raises the warning for that table, and the results *)
(* of the run are those of the normalized tables.                         *)
C10_WarningRaised ==
    IsPageRun =>
        /\ EditorHoldsInverted(tiers_edit) => TierWarning \in warns
        /\ EditorHoldsInverted(promos_edit) => PromoWarning \in warns
        /\ result_df = compute_scenarios(scenarios, normalize_tiers(tiers_edit).df,
                                         base_rate, normalize_promos(promos_edit).df,
                                         promo_mode, tier_mode).df

====
